---- MODULE Spec2Model ----
(***************************************************************************)
(* Model of src/src/diffParse.ts: the PR review pipeline (main and the     *)
(* functions it calls) and the diff-to-insertions printer (parseDiff).     *)
(*                                                                         *)
(* The pipeline is an async function: every await of a remote call is a    *)
(* suspension point.  Each action below is one resumption: it receives the *)
(* outcome of the call that was awaited and runs the code up to the next   *)
(* await (issuing that call) or to the end of main.                        *)
(***************************************************************************)
EXTENDS Integers, Sequences, FiniteSets, TLC

VARIABLES
    pc,            \* where main is suspended, or how it ended
    action,        \* eventData.action of the event payload
    excludeInput,  \* core.getInput("exclude")
    diff,          \* the local `diff` of main
    parsedDiff,    \* parseDiff(diff)
    filteredDiff,  \* parsedDiff without the excluded files
    queue,         \* the (file, chunk) iterations of analyzeCode's loops, in order
    qi,            \* index in queue of the iteration whose completion call is awaited
    comments,      \* the `comments` array of analyzeCode
    lastOutcome,   \* outcome of the completion call that returned last
    calls,         \* every remote call issued so far, in order
    review,        \* body of the createReview call, once issued
    log,           \* console output of the pipeline
    exitCode,      \* process exit code once the run is over
    stdin,         \* printer: the lines of standard input not read yet
    gitDiffText,   \* printer: the text read so far, a sequence of lines
    ppc,           \* printer: "reading" until the end event, then "end"
    out            \* printer: standard output, a sequence of strings

pvars == <<stdin, gitDiffText, ppc, out>>
mvars == <<pc, action, excludeInput, diff, parsedDiff, filteredDiff, queue, qi,
           comments, lastOutcome, calls, review, log, exitCode>>
vars == <<mvars, pvars>>

(***************************************************************************)
(* Bounds of the model.                                                    *)
(***************************************************************************)
MaxFiles == 2      \* files in a diff
MaxHunks == 3      \* hunks in a diff, over all its files
MaxLines == 5      \* lines of the diff text on standard input

(***************************************************************************)
(* JavaScript values.                                                      *)
(***************************************************************************)
Undefined == "<undefined>"
JNull == [t |-> "null"]
JBool(b) == [t |-> "boolean", v |-> b]
JNum(n) == [t |-> "number", v |-> n]
JStr(s) == [t |-> "string", v |-> s]
JArr(s) == [t |-> "array", v |-> s]
JObj(f) == [t |-> "object", v |-> f]
NaN == [t |-> "NaN"]
Thrown == [t |-> "throw"]

\* JavaScript truthiness, as used by `if (x)`, `!x` and `x || y`.
Truthy(v) ==
    CASE v.t = "null" -> FALSE
      [] v.t = "boolean" -> v.v
      [] v.t = "number" -> v.v # 0
      [] v.t = "string" -> v.v # ""
      [] OTHER -> TRUE

TruthyStr(s) == s # Undefined /\ s # ""

\* obj.name for a value that is not null: undefined unless an object has it.
Prop(v, name) ==
    IF v.t = "object" /\ name \in DOMAIN v.v THEN v.v[name] ELSE Undefined

(***************************************************************************)
(* The event payload and the CI inputs.                                    *)
(***************************************************************************)
Actions == {"opened", "synchronize", "closed", Undefined}
ExcludeInputs == {"", "*.md"}

\* core.getInput("exclude").split(",").map((s) => s.trim())
ExcludePatterns(input) ==
    CASE input = "" -> <<"">>
      [] input = "*.md" -> <<"*.md">>
      [] input = "*.md, docs/**" -> <<"*.md", "docs/**">>

\* minimatch(path, pattern) on the paths and patterns of the model.
Minimatch(path, pattern) ==
    CASE pattern = "" -> path = ""
      [] pattern = "*.md" -> path \in {"README.md"}
      [] OTHER -> FALSE

(***************************************************************************)
(* Diffs.  A diff text is null, the empty string, or a text that parse-diff *)
(* turns into a list of files; a file has a destination path (`to`) and n  *)
(* chunks, and the chunk j of the file with identity id is <<id, j>>.      *)
(***************************************************************************)
Paths == {"src/a.ts", "README.md", "/dev/null", Undefined}

RECURSIVE TotalChunks(_)
TotalChunks(s) == IF s = <<>> THEN 0 ELSE Head(s).n + TotalChunks(Tail(s))

RECURSIVE FileListsOf(_, _)
\* the lists of at most k files that hold at most h chunks together
FileListsOf(k, h) ==
    IF k = 0 THEN {<<>>}
    ELSE LET shorter == FileListsOf(k - 1, h)
         IN shorter \cup
            {Append(x[1], [id |-> k, to |-> x[2], n |-> x[3]]) :
                x \in {y \in shorter \X Paths \X (0..h) :
                          /\ Len(y[1]) = k - 1
                          /\ TotalChunks(y[1]) + y[3] <= h}}

FileLists == FileListsOf(MaxFiles, MaxHunks)
NullDiff == [t |-> "null", files |-> <<>>]
EmptyDiff == [t |-> "empty", files |-> <<>>]
DiffTexts == {[t |-> "diff", files |-> s] : s \in FileLists}
DiffData == {NullDiff, EmptyDiff} \cup DiffTexts

\* parseDiff(diff) of parse-diff, for a diff that is a non-empty text
ParseDiffText(d) == d.files

\* the no-diff check written `diff === null`
DiffAbsentNullOnly(d) == d.t = "null"

\* `!diff` at the no-diff check: null and the empty string are falsy
DiffAbsent(d) == d.t \in {"null", "empty"}

(***************************************************************************)
(* The completion endpoint.  An outcome of axios.post is a rejection, a    *)
(* response without choices, or a response whose first choice has the      *)
(* message content `content` (Undefined when the content is missing).      *)
(***************************************************************************)
EntryText == "[{\"lineNumber\": \"3\", \"reviewComment\": \"fix\"}]"
Contents == {Undefined, "  ", "oops", "[]", EntryText, "[null]", "{}", "null",
             "7", "\"hi\"", "true"}
Outcomes == {[k |-> "error", content |-> ""], [k |-> "nochoices", content |-> ""]}
            \cup {[k |-> "ok", content |-> c] : c \in Contents}
NoOutcome == [k |-> "none", content |-> ""]

\* String.prototype.trim on the contents of the model
Trim(s) == IF s = "  " THEN "" ELSE s

\* JSON.parse on the contents of the model: the value, or Thrown (SyntaxError)
JSONParse(text) ==
    CASE text = "[]" -> JArr(<<>>)
      [] text = EntryText -> JArr(<<JObj([lineNumber |-> "3", reviewComment |-> "fix"])>>)
      [] text = "[null]" -> JArr(<<JNull>>)
      [] text = "{}" -> JObj(<<>>)
      [] text = "null" -> JNull
      [] text = "7" -> JNum(7)
      [] text = "0" -> JNum(0)
      [] text = "\"hi\"" -> JStr("hi")
      [] text = "true" -> JBool(TRUE)
      [] text = "false" -> JBool(FALSE)
      [] OTHER -> Thrown

\* Number(x) for a string or undefined
NumberOf(x) ==
    CASE x = "3" -> JNum(3)
      [] x = "12" -> JNum(12)
      [] OTHER -> NaN

\* response.data.choices[0].message?.content?.trim() || "[]"
ResponseText(content) ==
    IF content = Undefined THEN "[]"
    ELSE IF TruthyStr(Trim(content)) THEN Trim(content) ELSE "[]"

\* getAIResponse without its try/catch: a rejection or a parse error is not
\* turned into null
GetAIResponseNoCatch(o) ==
    IF o.k \in {"error", "nochoices"} THEN Thrown
    ELSE JSONParse(ResponseText(o.content))

\* getAIResponse: the value returned, JNull when the catch block returned null
GetAIResponse(o) ==
    IF o.k \in {"error", "nochoices"} THEN JNull
    ELSE LET v == JSONParse(ResponseText(o.content))
         IN IF v.t = "throw" THEN JNull ELSE v

\* what getAIResponse's catch block logs, <<>> when nothing was caught
AIResponseLog(o) ==
    CASE o.k = "error" -> <<"Error: AxiosError">>
      [] o.k = "nochoices" -> <<"Error: TypeError">>
      [] o.k = "ok" /\ JSONParse(ResponseText(o.content)).t = "throw" -> <<"Error: SyntaxError">>
      [] OTHER -> <<>>

RECURSIVE FlatMapComments(_, _)
\* the flatMap callback of createComment over the array elements es, for a
\* file with a destination path: a TypeError is thrown at a null element
FlatMapComments(file, es) ==
    IF es = <<>> THEN [thrown |-> FALSE, comments |-> <<>>]
    ELSE IF Head(es).t = "null" THEN [thrown |-> TRUE, comments |-> <<>>]
    ELSE LET rest == FlatMapComments(file, Tail(es))
         IN [thrown |-> rest.thrown,
             comments |-> <<[body |-> Prop(Head(es), "reviewComment"),
                             path |-> file.to,
                             line |-> NumberOf(Prop(Head(es), "lineNumber"))]>>
                          \o rest.comments]

\* createComment(file, chunk, aiResponses): the comments returned, or thrown
\* when the call ends in a TypeError (flatMap is no function of the value, or
\* the callback reads a property of null)
CreateComment(file, v) ==
    IF v.t # "array" THEN [thrown |-> TRUE, comments |-> <<>>]
    ELSE IF ~TruthyStr(file.to) THEN [thrown |-> FALSE, comments |-> <<>>]
    ELSE FlatMapComments(file, v.v)

\* createPrompts: the prompt is determined by the file's path and the chunk
CreatePrompts(file, j) == [to |-> file.to, chunk |-> <<file.id, j>>]

\* the deleted-file test comparing with the wrong sentinel
IsDeletedWrongSentinel(file) == file.to = "dev/null"

\* the deleted-file test of analyzeCode
IsDeleted(file) == file.to = "/dev/null"

\* the exclude filter of main
IsExcluded(file, patterns) ==
    \E i \in DOMAIN patterns :
        Minimatch(IF file.to = Undefined THEN "" ELSE file.to, patterns[i])

RECURSIVE FilterDiff(_, _)
FilterDiff(files, patterns) ==
    IF files = <<>> THEN <<>>
    ELSE (IF IsExcluded(Head(files), patterns) THEN <<>> ELSE <<Head(files)>>)
         \o FilterDiff(Tail(files), patterns)

RECURSIVE ReviewQueue(_)
\* the iterations of the two loops of analyzeCode, in the order they run
ReviewQueue(files) ==
    IF files = <<>> THEN <<>>
    ELSE (IF IsDeleted(Head(files)) THEN <<>>
          ELSE [j \in 1..Head(files).n |-> [file |-> Head(files), j |-> j]])
         \o ReviewQueue(Tail(files))

\* the branch of main with the final else missing: any other action is
\* handled like "opened"
DiffSourceNoElse(a) ==
    CASE a = "synchronize" -> "compare"
      [] OTHER -> "direct"

\* the branch of main with the two actions exchanged
DiffSourceSwapped(a) ==
    CASE a = "opened" -> "compare"
      [] a = "synchronize" -> "direct"
      [] OTHER -> "unsupported"

\* the branch main takes on eventData.action
DiffSource(a) ==
    CASE a = "opened" -> "direct"
      [] a = "synchronize" -> "compare"
      [] OTHER -> "unsupported"

\* the guard of createReviewComment written `comments.length >= 0`
ShouldPublishAlways(c) == Len(c) >= 0

\* `comments.length > 0`, the test that guards createReviewComment
ShouldPublish(c) == Len(c) > 0

\* createReviewComment: the body of the octokit.pulls.createReview call
ReviewBody(c) == [comments |-> c, event |-> "COMMENT"]
NoReview == [comments |-> <<>>, event |-> ""]

Call(api) == [api |-> api, prompt |-> [to |-> "", chunk |-> <<0, 0>>]]
CompletionCall(prompt) == [api |-> "completion", prompt |-> prompt]

(***************************************************************************)
(* The pipeline.                                                           *)
(***************************************************************************)
Init ==
    /\ pc = "init"
    /\ action \in Actions
    /\ excludeInput \in ExcludeInputs
    /\ diff = NullDiff
    /\ parsedDiff = <<>>
    /\ filteredDiff = <<>>
    /\ queue = <<>>
    /\ qi = 0
    /\ comments = <<>>
    /\ lastOutcome = NoOutcome
    /\ calls = <<>>
    /\ review = NoReview
    /\ log = <<>>
    /\ exitCode = -1
    /\ stdin = <<>> /\ gitDiffText = <<>> /\ ppc = "off" /\ out = <<>>

\* main().catch: an error rejected main; it is logged and the process exits 1
Reject(lg, err) ==
    /\ pc' = "failed"
    /\ log' = Append(lg, "Error: " \o err)
    /\ exitCode' = 1

\* main returns (the promise resolves): the process ends with exit code 0
Return(lg) ==
    /\ pc' = "done"
    /\ log' = lg
    /\ exitCode' = 0

\* analyzeCode from iteration k on with the comments c and the log lg: the
\* next completion call is issued, or the loops are over and main goes on
\* to publish
Analyze(q, k, c, lg) ==
    /\ qi' = k
    /\ comments' = c
    /\ IF k <= Len(q)
       THEN /\ calls' = Append(calls, CompletionCall(CreatePrompts(q[k].file, q[k].j)))
            /\ pc' = "awaitAI"
            /\ log' = lg
            /\ UNCHANGED <<review, exitCode>>
       ELSE IF ShouldPublish(c)
       THEN /\ calls' = Append(calls, Call("pulls.createReview"))
            /\ review' = ReviewBody(c)
            /\ pc' = "awaitReview"
            /\ log' = lg
            /\ UNCHANGED exitCode
       ELSE /\ Return(lg)
            /\ UNCHANGED <<calls, review>>

\* main from the no-diff check on, with the diff d
WithDiff(d) ==
    /\ diff' = d
    /\ lastOutcome' = lastOutcome
    /\ IF DiffAbsent(d)
       THEN /\ Return(Append(log, "No diff found"))
            /\ UNCHANGED <<parsedDiff, filteredDiff, queue, qi, comments, calls, review>>
       ELSE /\ parsedDiff' = ParseDiffText(d)
            /\ filteredDiff' = FilterDiff(parsedDiff', ExcludePatterns(excludeInput))
            /\ queue' = ReviewQueue(filteredDiff')
            /\ Analyze(queue', 1, <<>>, log)

\* main is called: getPRDetails issues the pull-request metadata request
MainStart ==
    /\ pc = "init"
    /\ pc' = "awaitPRDetails"
    /\ calls' = Append(calls, Call("pulls.get"))
    /\ UNCHANGED <<action, excludeInput, diff, parsedDiff, filteredDiff, queue, qi,
                   comments, lastOutcome, review, log, exitCode>>
    /\ UNCHANGED pvars

\* the metadata request failed: getPRDetails rejects, and so does main
PRDetailsFail ==
    /\ pc = "awaitPRDetails"
    /\ Reject(log, "HttpError")
    /\ UNCHANGED <<action, excludeInput, diff, parsedDiff, filteredDiff, queue, qi,
                   comments, lastOutcome, calls, review>>
    /\ UNCHANGED pvars

\* the metadata request returned: main reads the event and picks the branch
PRDetailsReturn ==
    /\ pc = "awaitPRDetails"
    /\ CASE DiffSource(action) = "direct" ->
              /\ calls' = Append(calls, Call("pulls.get:diff"))
              /\ pc' = "awaitDiff"
              /\ UNCHANGED <<log, exitCode>>
         [] DiffSource(action) = "compare" ->
              /\ calls' = Append(calls, Call("repos.compareCommitsWithBasehead"))
              /\ pc' = "awaitCompare"
              /\ UNCHANGED <<log, exitCode>>
         [] OTHER ->
              /\ Return(Append(log, "Unsupported event:"))
              /\ UNCHANGED calls
    /\ UNCHANGED <<action, excludeInput, diff, parsedDiff, filteredDiff, queue, qi,
                   comments, lastOutcome, review>>
    /\ UNCHANGED pvars

\* a request of the diff retrieval failed: main rejects
RetrievalFail ==
    /\ pc \in {"awaitDiff", "awaitCompare", "awaitDiffUrl"}
    /\ Reject(log, "HttpError")
    /\ UNCHANGED <<action, excludeInput, diff, parsedDiff, filteredDiff, queue, qi,
                   comments, lastOutcome, calls, review>>
    /\ UNCHANGED pvars

\* getDiff returns response.data
GetDiffReturn ==
    /\ pc = "awaitDiff"
    /\ \E d \in DiffData : WithDiff(d)
    /\ UNCHANGED <<action, excludeInput>>
    /\ UNCHANGED pvars

\* the comparison returned, with or without a diff_url
CompareReturn ==
    /\ pc = "awaitCompare"
    /\ \E hasDiffUrl \in BOOLEAN :
          IF hasDiffUrl
          THEN /\ calls' = Append(calls, Call("request:diff_url"))
               /\ pc' = "awaitDiffUrl"
               /\ UNCHANGED <<diff, parsedDiff, filteredDiff, queue, qi, comments,
                              lastOutcome, review, log, exitCode>>
          ELSE WithDiff(NullDiff)
    /\ UNCHANGED <<action, excludeInput>>
    /\ UNCHANGED pvars

\* the request of the diff_url returned its data
DiffUrlReturn ==
    /\ pc = "awaitDiffUrl"
    /\ \E d \in DiffData : WithDiff(d)
    /\ UNCHANGED <<action, excludeInput>>
    /\ UNCHANGED pvars

\* the awaited axios.post settled with outcome o: the rest of getAIResponse,
\* the rest of the loop body, and the loops up to the next await
AIReturn ==
    /\ pc = "awaitAI"
    /\ \E o \in Outcomes :
          LET aiResponse == GetAIResponse(o)
              lg == log \o AIResponseLog(o)
              newComments == CreateComment(queue[qi].file, aiResponse)
          IN /\ lastOutcome' = o
             /\ IF ~Truthy(aiResponse)
                THEN Analyze(queue, qi + 1, comments, lg)
                ELSE IF newComments.thrown
                THEN /\ Reject(lg, "TypeError")
                     /\ UNCHANGED <<qi, comments, calls, review>>
                ELSE Analyze(queue, qi + 1, comments \o newComments.comments, lg)
    /\ UNCHANGED <<action, excludeInput, diff, parsedDiff, filteredDiff, queue>>
    /\ UNCHANGED pvars

\* createReview returned: main returns
ReviewReturn ==
    /\ pc = "awaitReview"
    /\ Return(log)
    /\ UNCHANGED <<action, excludeInput, diff, parsedDiff, filteredDiff, queue, qi,
                   comments, lastOutcome, calls, review>>
    /\ UNCHANGED pvars

\* createReview failed: main rejects
ReviewFail ==
    /\ pc = "awaitReview"
    /\ Reject(log, "HttpError")
    /\ UNCHANGED <<action, excludeInput, diff, parsedDiff, filteredDiff, queue, qi,
                   comments, lastOutcome, calls, review>>
    /\ UNCHANGED pvars

Next ==
    \/ MainStart
    \/ PRDetailsFail
    \/ PRDetailsReturn
    \/ RetrievalFail
    \/ GetDiffReturn
    \/ CompareReturn
    \/ DiffUrlReturn
    \/ AIReturn
    \/ ReviewReturn
    \/ ReviewFail

Spec == Init /\ [][Next]_vars

(***************************************************************************)
(* Properties of the pipeline.  What a call or a comment should be is      *)
(* computed here from the run's inputs (the event action, the parsed diff, *)
(* the exclude input, the outcome of the call), not from the operators of  *)
(* the model above.                                                        *)
(***************************************************************************)
Apis(cs) == [i \in DOMAIN cs |-> cs[i].api]
Count(cs, api) == Cardinality({i \in DOMAIN cs : cs[i].api = api})
CompletionCalls == SelectSeq(calls, LAMBDA c : c.api = "completion")
CompletionPrompts == [i \in DOMAIN CompletionCalls |-> CompletionCalls[i].prompt]

\* the completion request failed, or its content is not JSON
HunkFailed(o) == o.k = "error" \/ (o.k = "ok" /\ o.content = "oops")

\* the comments a hunk of file f adds when its completion call ends in o
OwnComments(f, o) ==
    IF o.k = "ok" /\ o.content = EntryText /\ f.to \notin {Undefined, ""}
    THEN <<[body |-> "fix", path |-> f.to, line |-> JNum(3)]>>
    ELSE <<>>

\* the run ended in main().catch because the loop body threw
RunAborted == pc = "failed" /\ qi >= 1 /\ review = NoReview

\* C1: when the completion request of a hunk errors or its content is not
\* valid JSON, getAIResponse returns null, the hunk adds no comment, the error
\* is logged, the run is not aborted and goes straight on to the next hunk's
\* completion call (or to the end of the loop); and what any hunk adds to the
\* comments depends on its own file and response only.
C1_FailedHunkIsIsolated ==
    [][pc = "awaitAI" =>
          /\ HunkFailed(lastOutcome') =>
                /\ GetAIResponse(lastOutcome') = JNull
                /\ comments' = comments
                /\ Len(log') = Len(log) + 1
                /\ pc' # "failed" /\ exitCode' # 1
                /\ qi' = qi + 1
                /\ IF qi < Len(queue)
                   THEN /\ pc' = "awaitAI"
                        /\ calls' = Append(calls,
                              [api |-> "completion",
                               prompt |-> [to |-> queue[qi + 1].file.to,
                                           chunk |-> <<queue[qi + 1].file.id, queue[qi + 1].j>>]])
                   ELSE pc' \in {"awaitReview", "done"}
          /\ pc' # "failed" =>
                comments' = comments \o OwnComments(queue[qi].file, lastOutcome')]_vars

\* a request error and a parse error happened, and a later hunk added a comment
C1_Witness ==
    /\ pc = "awaitReview"
    /\ \E i, j \in DOMAIN log : log[i] = "Error: AxiosError" /\ log[j] = "Error: SyntaxError"
    /\ lastOutcome.content = EntryText
    /\ Len(comments) = 1

\* C2: createReview is called at most once; it is called, with event
\* "COMMENT" and all accumulated comments, exactly when the per-hunk loop has
\* finished with a non-empty comment list.
C2_ReviewOnceIffComments ==
    /\ Count(calls, "pulls.createReview") <= 1
    /\ Count(calls, "pulls.createReview") = 1 <=> (qi = Len(queue) + 1 /\ comments # <<>>)
    /\ Count(calls, "pulls.createReview") = 1 =>
          /\ review = [comments |-> comments, event |-> "COMMENT"]
          /\ calls[Len(calls)].api = "pulls.createReview"
    /\ Count(calls, "pulls.createReview") = 0 => review = NoReview

\* a review with the comments of two hunks was created and main returned
C2_Witness ==
    /\ pc = "done"
    /\ Count(calls, "pulls.createReview") = 1
    /\ Len(review.comments) >= 2

\* C3: for a file of the parsed diff whose destination is "/dev/null", no
\* prompt is built and no completion call is made, and no accumulated or
\* published comment has that path.
C3_DeletedFilesNeverReviewed ==
    /\ \A i \in DOMAIN parsedDiff :
          parsedDiff[i].to = "/dev/null" =>
              \A c \in DOMAIN calls :
                  calls[c].api = "completion" => calls[c].prompt.chunk[1] # parsedDiff[i].id
    /\ \A c \in DOMAIN calls : calls[c].prompt.to # "/dev/null"
    /\ \A c \in DOMAIN comments : comments[c].path # "/dev/null"
    /\ \A c \in DOMAIN review.comments : review.comments[c].path # "/dev/null"

\* a diff with a deleted file that has hunks was reviewed and comments were published
C3_Witness ==
    /\ pc = "done"
    /\ \E i \in DOMAIN filteredDiff : filteredDiff[i].to = "/dev/null" /\ filteredDiff[i].n >= 1
    /\ review.comments # <<>>

\* the retrieval of the diff is over: main reached the no-diff check
DiffChecked == qi >= 1 \/ \E i \in DOMAIN log : log[i] = "No diff found"

\* C4: for "opened" the diff comes from the direct diff-format request and
\* no comparison is made; for "synchronize" the diff comes only from the
\* diff URL of the comparison, the direct request is never made, and the
\* diff is absent when the comparison returns no diff URL.
C4_DiffSourceByAction ==
    /\ action = "opened" =>
          /\ Count(calls, "repos.compareCommitsWithBasehead") = 0
          /\ Count(calls, "request:diff_url") = 0
          /\ DiffChecked => (Count(calls, "pulls.get:diff") = 1 /\ calls[2].api = "pulls.get:diff")
    /\ action = "synchronize" =>
          /\ Count(calls, "pulls.get:diff") = 0
          /\ DiffChecked =>
                /\ Count(calls, "repos.compareCommitsWithBasehead") = 1
                /\ calls[2].api = "repos.compareCommitsWithBasehead"
                /\ Count(calls, "request:diff_url") <= 1
                /\ Count(calls, "request:diff_url") = 1 => calls[3].api = "request:diff_url"
                /\ Count(calls, "request:diff_url") = 0 => diff.t = "null"
                /\ diff.t = "diff" => Count(calls, "request:diff_url") = 1
    /\ action \notin {"opened", "synchronize"} =>
          /\ ~DiffChecked
          /\ \A i \in DOMAIN calls : calls[i].api = "pulls.get"

\* a synchronize run took its diff from the diff URL and went on to review it
C4_Witness ==
    /\ action = "synchronize"
    /\ pc = "awaitAI"
    /\ Apis(calls) = <<"pulls.get", "repos.compareCommitsWithBasehead", "request:diff_url",
                       "completion">>

\* C5: for an action other than "opened" and "synchronize", once the
\* PR-details fetch has returned the run has logged the unsupported-event
\* message and ended normally; the PR-details fetch is the only remote call
\* the run ever makes.
C5_UnsupportedActionOnlyFetchesDetails ==
    action \notin {"opened", "synchronize"} =>
        /\ pc \in {"init", "awaitPRDetails", "done", "failed"}
        /\ Len(calls) <= 1
        /\ \A i \in DOMAIN calls : calls[i].api = "pulls.get"
        /\ pc = "done" =>
              /\ log = <<"Unsupported event:">>
              /\ exitCode = 0
              /\ Apis(calls) = <<"pulls.get">>
        /\ pc = "failed" => log = <<"Error: HttpError">>
        /\ comments = <<>> /\ review = NoReview /\ parsedDiff = <<>>

\* a run for the action "closed" has ended
C5_Witness ==
    /\ action = "closed"
    /\ pc = "done"
    /\ log = <<"Unsupported event:">>

\* C6: when the retrieval of either branch ends with an absent diff (null or
\* the empty text), the run logs "No diff found" and returns normally: the
\* diff is not parsed and no further call is made.
C6_AbsentDiffEndsRun ==
    [][(/\ pc \in {"awaitDiff", "awaitCompare", "awaitDiffUrl"}
        /\ pc' \notin {"awaitDiff", "awaitCompare", "awaitDiffUrl", "failed"}
        /\ diff'.t \in {"null", "empty"}) =>
          /\ pc' = "done"
          /\ exitCode' = 0
          /\ log' = Append(log, "No diff found")
          /\ calls' = calls
          /\ parsedDiff' = <<>> /\ queue' = <<>> /\ qi' = 0
          /\ comments' = <<>> /\ review' = NoReview]_vars

\* a synchronize run fetched the diff URL, got the empty text and ended
C6_Witness ==
    /\ pc = "done"
    /\ action = "synchronize"
    /\ diff = EmptyDiff
    /\ Apis(calls) = <<"pulls.get", "repos.compareCommitsWithBasehead", "request:diff_url">>
    /\ log = <<"No diff found">>

RECURSIVE ExpectedPrompts(_, _)
\* the prompts of the hunks of the files that are neither excluded nor
\* deleted, in file order then hunk order
ExpectedPrompts(files, input) ==
    IF files = <<>> THEN <<>>
    ELSE LET f == Head(files)
             excluded == \/ input = "" /\ f.to = Undefined
                         \/ input = "*.md" /\ f.to = "README.md"
         IN (IF excluded \/ f.to = "/dev/null" THEN <<>>
             ELSE [j \in 1..f.n |-> [to |-> f.to, chunk |-> <<f.id, j>>]])
            \o ExpectedPrompts(Tail(files), input)

IsPrefix(s, t) == Len(s) <= Len(t) /\ SubSeq(t, 1, Len(s)) = s

\* C9 as stated: in every run that reaches the per-hunk loop the completion
\* endpoint is called exactly once for each hunk of each retained file and
\* for no other hunk, in file order then hunk order, one call at a time and
\* never repeated; createReview comes only after the last completion call.
C9_EveryRetainedHunkCalledOnce ==
    /\ IsPrefix(CompletionPrompts, ExpectedPrompts(parsedDiff, excludeInput))
    /\ (qi >= 1 /\ pc \in {"done", "failed"}) =>
          CompletionPrompts = ExpectedPrompts(parsedDiff, excludeInput)
    /\ Count(calls, "pulls.createReview") = 1 =>
          /\ calls[Len(calls)].api = "pulls.createReview"
          /\ CompletionPrompts = ExpectedPrompts(parsedDiff, excludeInput)

\* the content of the last completion response is valid JSON
ValidJSON(o) ==
    o.k = "ok" /\ o.content \in {"[]", EntryText, "[null]", "{}", "null", "7", "\"hi\"", "true"}

\* C10 as stated: a completion response whose content is valid JSON of any
\* value never aborts the run.
C10_ValidJsonNeverAborts ==
    ValidJSON(lastOutcome) => ~RunAborted

(***************************************************************************)
(* The diff-to-insertions printer.  The diff text is a sequence of lines:  *)
(* a file header naming the new path, a hunk header, or a change whose     *)
(* kind is insert, delete or normal and whose text is the line's content.  *)
(* Standard output is a sequence of strings, "\n" being the line break.    *)
(***************************************************************************)
NL == "\n"
FileLines == {[k |-> "file", text |-> p] : p \in {"a.ts", "b.ts"}}
HunkLine == [k |-> "hunk", text |-> "@@"]
ChangeLines == {[k |-> "insert", text |-> "foo"], [k |-> "insert", text |-> "qux"],
                [k |-> "delete", text |-> "bar"], [k |-> "normal", text |-> "baz"]}

RECURSIVE DiffTextsOf(_)
\* the diff texts of at most n lines: a change line follows a hunk header or
\* a change line, a hunk header follows anything but the start of the text
DiffTextsOf(n) ==
    IF n = 0 THEN {<<>>}
    ELSE LET shorter == DiffTextsOf(n - 1)
             Fits(s, l) ==
                 /\ Len(s) = n - 1
                 /\ l.k # "file" => s # <<>>
                 /\ l \in ChangeLines => s[Len(s)].k # "file"
         IN shorter \cup
            {Append(x[1], x[2]) :
                x \in {y \in shorter \X (FileLines \cup {HunkLine} \cup ChangeLines) :
                          Fits(y[1], y[2])}}

\* the diff texts on standard input: every hunk header is followed by a change
StdinTexts ==
    {s \in DiffTextsOf(MaxLines) :
        \A i \in 1..Len(s) : s[i].k = "hunk" => (i < Len(s) /\ s[i + 1] \in ChangeLines)}

RECURSIVE ParseGitDiff(_)
\* gitDiffParser.parse(text): the files, each with its hunks, each with its
\* changes
ParseGitDiff(text) ==
    IF text = <<>> THEN <<>>
    ELSE LET files == ParseGitDiff(SubSeq(text, 1, Len(text) - 1))
             l == text[Len(text)]
             f == files[Len(files)]
             h == f.hunks[Len(f.hunks)]
         IN CASE l.k = "file" -> Append(files, [newPath |-> l.text, hunks |-> <<>>])
              [] l.k = "hunk" ->
                   [files EXCEPT ![Len(files)].hunks = Append(@, [changes |-> <<>>])]
              [] OTHER ->
                   [files EXCEPT ![Len(files)].hunks[Len(f.hunks)].changes =
                       Append(@, [type |-> l.k, content |-> l.text])]

RECURSIVE AllContents(_)
\* InsertContents without the filter: every change is kept
AllContents(changes) ==
    IF changes = <<>> THEN <<>>
    ELSE <<Head(changes).content>> \o AllContents(Tail(changes))

RECURSIVE InsertContents(_)
\* changes.filter((change) => change.type === "insert").map((change) => change.content)
InsertContents(changes) ==
    IF changes = <<>> THEN <<>>
    ELSE (IF Head(changes).type = "insert" THEN <<Head(changes).content>> ELSE <<>>)
         \o InsertContents(Tail(changes))

RECURSIVE Join(_, _)
\* Array.prototype.join: the elements with sep between them
Join(ss, sep) ==
    IF ss = <<>> THEN <<>>
    ELSE IF Len(ss) = 1 THEN <<ss[1]>>
    ELSE <<ss[1], sep>> \o Join(Tail(ss), sep)

\* console.log(s): s and a line break
ConsoleLog(o, s) == o \o s \o <<NL>>

HeaderOf(path) == "+++++++++++ " \o path \o " ++++++++++++"

\* the body of file.hunks.forEach
PrintHunk(o, hunk) ==
    LET block == Join(InsertContents(hunk.changes), NL)
    IN ConsoleLog(ConsoleLog(o, block), <<>>)

RECURSIVE PrintHunks(_, _)
PrintHunks(o, hunks) ==
    IF hunks = <<>> THEN o
    ELSE PrintHunks(PrintHunk(o, Head(hunks)), Tail(hunks))

\* PrintFile closing the file with console.log("") instead of console.log("\n")
PrintFileOneBreak(o, file) ==
    ConsoleLog(PrintHunks(ConsoleLog(o, <<HeaderOf(file.newPath)>>), file.hunks), <<>>)

\* the body of files.forEach
PrintFile(o, file) ==
    ConsoleLog(PrintHunks(ConsoleLog(o, <<HeaderOf(file.newPath)>>), file.hunks), <<NL>>)

RECURSIVE PrintFiles(_, _)
PrintFiles(o, files) ==
    IF files = <<>> THEN o
    ELSE PrintFiles(PrintFile(o, Head(files)), Tail(files))

PrinterInit ==
    /\ stdin \in StdinTexts
    /\ gitDiffText = <<>>
    /\ ppc = "reading"
    /\ out = <<>>
    /\ pc = "off"
    /\ action = Undefined
    /\ excludeInput = ""
    /\ diff = NullDiff
    /\ parsedDiff = <<>>
    /\ filteredDiff = <<>>
    /\ queue = <<>>
    /\ qi = 0
    /\ comments = <<>>
    /\ lastOutcome = NoOutcome
    /\ calls = <<>>
    /\ review = NoReview
    /\ log = <<>>
    /\ exitCode = -1

\* the "readable" handler: the chunks that are available are appended
Readable ==
    /\ ppc = "reading"
    /\ stdin # <<>>
    /\ \E n \in 1..Len(stdin) :
          /\ gitDiffText' = gitDiffText \o SubSeq(stdin, 1, n)
          /\ stdin' = SubSeq(stdin, n + 1, Len(stdin))
    /\ UNCHANGED <<ppc, out>>
    /\ UNCHANGED mvars

\* the "end" handler, parseDiff
ParseDiffOnEnd ==
    /\ ppc = "reading"
    /\ stdin = <<>>
    /\ out' = PrintFiles(out, ParseGitDiff(gitDiffText))
    /\ ppc' = "end"
    /\ UNCHANGED <<stdin, gitDiffText>>
    /\ UNCHANGED mvars

PrinterNext ==
    \/ Readable
    \/ ParseDiffOnEnd

PrinterSpec == PrinterInit /\ [][PrinterNext]_vars

(***************************************************************************)
(* Properties of the printer.  What the output should be is computed from  *)
(* the lines of the diff text, not from the parsed files.                  *)
(***************************************************************************)
RECURSIVE SplitLines(_)
\* the lines of an output that ends with a line break
SplitLines(o) ==
    IF o = <<>> THEN <<>>
    ELSE LET i == CHOOSE j \in 1..Len(o) : o[j] = NL /\ \A m \in 1..(j - 1) : o[m] # NL
         IN <<SubSeq(o, 1, i - 1)>> \o SplitLines(SubSeq(o, i + 1, Len(o)))

RECURSIVE StripBreaks(_)
\* o without the line breaks at its end
StripBreaks(o) ==
    IF o # <<>> /\ o[Len(o)] = NL THEN StripBreaks(SubSeq(o, 1, Len(o) - 1)) ELSE o

\* the indices of the lines of kind k in a text
Starts(text, k) == {i \in 1..Len(text) : text[i].k = k}

\* the lines that follow the line at index i up to the next line of kind k
SegmentAfter(text, i, k) ==
    LET later == {j \in Starts(text, k) : j > i}
        stop == IF later = {} THEN Len(text) + 1
                ELSE CHOOSE j \in later : \A m \in later : j <= m
    IN SubSeq(text, i + 1, stop - 1)

RECURSIVE InsertedTexts(_)
\* the content of the insert lines of a piece of diff text, in order
InsertedTexts(text) ==
    IF text = <<>> THEN <<>>
    ELSE (IF Head(text).k = "insert" THEN <<Head(text).text>> ELSE <<>>)
         \o InsertedTexts(Tail(text))

Headers == {HeaderOf(l.text) : l \in FileLines}
HeaderIndices == {i \in 1..Len(out) : out[i] \in Headers}

\* what the output holds between the break after the header at index i and
\* the next header (or the end of the output)
OutputSection(i) ==
    LET later == {j \in HeaderIndices : j > i}
        stop == IF later = {} THEN Len(out) + 1
                ELSE CHOOSE j \in later : \A m \in later : j <= m
    IN SubSeq(out, i + 2, stop - 1)

\* the n-th smallest element of a set of integers
RECURSIVE Nth(_, _)
Nth(S, n) ==
    LET m == CHOOSE x \in S : \A y \in S : x <= y
    IN IF n = 1 THEN m ELSE Nth(S \ {m}, n - 1)

RECURSIVE HunkBlocks(_, _)
\* for the lines fs of one file, from its hunk headers hs on: per hunk the
\* inserted contents joined by line breaks, a line break and a blank line
HunkBlocks(fs, hs) ==
    IF hs = {} THEN <<>>
    ELSE LET h == CHOOSE x \in hs : \A y \in hs : x <= y
         IN Join(InsertedTexts(SegmentAfter(fs, h, "hunk")), NL) \o <<NL, NL>>
            \o HunkBlocks(fs, hs \ {h})

PrinterDone == ppc = "end"

\* every file of the text has its header in the output, in order
HeadersMatch ==
    /\ Cardinality(HeaderIndices) = Cardinality(Starts(gitDiffText, "file"))
    /\ \A n \in 1..Cardinality(HeaderIndices) :
          out[Nth(HeaderIndices, n)] = HeaderOf(gitDiffText[Nth(Starts(gitDiffText, "file"), n)].text)

\* C7 as stated: between a file's header line and its trailing separator
\* (the line breaks that end the file's output) the printer emits exactly
\* the newline-join of all inserted contents of the file, across its hunks.
C7_SingleBlockPerFile ==
    PrinterDone =>
        /\ HeadersMatch
        /\ \A n \in 1..Cardinality(HeaderIndices) :
              LET fs == SegmentAfter(gitDiffText, Nth(Starts(gitDiffText, "file"), n), "file")
              IN StripBreaks(OutputSection(Nth(HeaderIndices, n)))
                    = Join(InsertedTexts(fs), NL)

\* C7 amended: after a file's header line the printer emits one block per
\* hunk, in order: the newline-join of that hunk's inserted contents, a line
\* break and a blank line; then two line breaks end the file's output.
C7_BlockPerHunk ==
    PrinterDone =>
        /\ HeadersMatch
        /\ \A n \in 1..Cardinality(HeaderIndices) :
              LET fs == SegmentAfter(gitDiffText, Nth(Starts(gitDiffText, "file"), n), "file")
              IN OutputSection(Nth(HeaderIndices, n))
                    = HunkBlocks(fs, Starts(fs, "hunk")) \o <<NL, NL>>

\* a file with two hunks that both insert has been printed
C7_Witness ==
    /\ PrinterDone
    /\ \E i \in Starts(gitDiffText, "file") :
          LET fs == SegmentAfter(gitDiffText, i, "file")
          IN /\ Cardinality(Starts(fs, "hunk")) >= 2
             /\ \A h \in Starts(fs, "hunk") :
                   InsertedTexts(SegmentAfter(fs, h, "hunk")) # <<>>

OneFileOneHunk ==
    /\ Cardinality(Starts(gitDiffText, "file")) = 1
    /\ Cardinality(Starts(gitDiffText, "hunk")) = 1

LineOf(s) == <<s>>
BlankLine == <<>>
InsertedLines == [i \in 1..Len(InsertedTexts(gitDiffText)) |-> LineOf(InsertedTexts(gitDiffText)[i])]

\* C8 as stated: for one file with one hunk the output is the header line,
\* one line per inserted change, one blank line and one trailing blank line.
C8_HeaderInsertsTwoBlanks ==
    (PrinterDone /\ OneFileOneHunk) =>
        SplitLines(out) = <<LineOf(HeaderOf(gitDiffText[1].text))>> \o InsertedLines
                          \o <<BlankLine, BlankLine>>

\* C8 amended: for one file with one hunk the output is the header line,
\* one line per inserted change (a single empty line when the hunk inserts
\* nothing), one blank line, and two trailing blank lines.
C8_HeaderInsertsThreeBlanks ==
    (PrinterDone /\ OneFileOneHunk) =>
        SplitLines(out) = <<LineOf(HeaderOf(gitDiffText[1].text))>>
                          \o (IF InsertedLines = <<>> THEN <<BlankLine>> ELSE InsertedLines)
                          \o <<BlankLine, BlankLine, BlankLine>>

\* the text of the example (+foo, -bar, baz in one hunk of one file) has been printed
C8_Witness ==
    /\ PrinterDone
    /\ gitDiffText = <<[k |-> "file", text |-> "a.ts"], HunkLine,
                       [k |-> "insert", text |-> "foo"], [k |-> "delete", text |-> "bar"],
                       [k |-> "normal", text |-> "baz"]>>
    /\ SplitLines(out) = <<LineOf(HeaderOf("a.ts")), LineOf("foo"), BlankLine, BlankLine, BlankLine>>
====
